---- MODULE Spec2Model ----
(***************************************************************************)
(* Model of cities/models.py: the Place tables (Country, Region,           *)
(* Subregion, City, District, PostalCode), the parent/hierarchy walk, the  *)
(* full_code composition, PlaceManager.nearest_to and its Country          *)
(* specialisation, and the get_full_index builders.                        *)
(*                                                                         *)
(* Rows are identified by their primary key, the position in the table.    *)
(* Locations are points of a line measured in miles, so that D(mi=r) is    *)
(* the number r and the geodesic distance is the absolute difference.      *)
(***************************************************************************)
EXTENDS Integers, Sequences, FiniteSets, TLC

VARIABLES countries, regions, subregions, cities, districts, postalcodes, call

vars == <<countries, regions, subregions, cities, districts, postalcodes, call>>
tables == <<countries, regions, subregions, cities, districts, postalcodes>>

----------------------------------------------------------------------------
(* Bounds *)
MaxCoord == 2
MaxRange == 2
MaxRegions == 2
MaxSubregions == 2
MaxCities == 2
MaxDistricts == 2
HierMaxSubregions == 1
HierMaxCities == 1

(* Program constants *)
Null == 0        \* a null foreign key (null=True)
NoRange == -1    \* range_in_miles=None

PlaceCodes == {"01", "02"}

Points == 0..MaxCoord
Ranges == {NoRange} \cup (0..MaxRange)

NoPlace == <<"None", 0>>
NoCall == [op |-> "idle"]

----------------------------------------------------------------------------
(* Tables *)
Pks(table) == 1..Len(table)

Table(model) ==
    CASE model = "Country" -> countries
      [] model = "Region" -> regions
      [] model = "Subregion" -> subregions
      [] model = "City" -> cities
      [] model = "District" -> districts
      [] model = "PostalCode" -> postalcodes

Models == {"Country", "Region", "Subregion", "City", "District", "PostalCode"}

\* models whose `objects` is PlaceManager itself or a subclass not overriding nearest_to
PlaceManagerModels == {"Region", "Subregion", "City", "District"}

\* models declaring location = models.PointField()
HasLocation(model) == model \in {"City", "District", "PostalCode"}

Places == UNION {{<<m, pk>> : pk \in Pks(Table(m))} : m \in Models}

----------------------------------------------------------------------------
(* parent properties *)
CountryParent(pk) == NoPlace

RegionParent(pk) == <<"Country", regions[pk].country>>

SubregionParent(pk) == <<"Region", subregions[pk].region>>

CityParentBySubregion(pk) ==
    IF cities[pk].subregion = Null THEN NoPlace ELSE <<"Subregion", cities[pk].subregion>>

CityParent(pk) ==
    IF cities[pk].region = Null THEN NoPlace ELSE <<"Region", cities[pk].region>>

DistrictParent(pk) == <<"City", districts[pk].city>>

PostalCodeParent(pk) == <<"Country", postalcodes[pk].country>>

Parent(place) ==
    CASE place[1] = "Country" -> CountryParent(place[2])
      [] place[1] = "Region" -> RegionParent(place[2])
      [] place[1] = "Subregion" -> SubregionParent(place[2])
      [] place[1] = "City" -> CityParent(place[2])
      [] place[1] = "District" -> DistrictParent(place[2])
      [] place[1] = "PostalCode" -> PostalCodeParent(place[2])

(* Place.hierarchy *)
HierarchyNoWalk(place) ==
    IF Parent(place) # NoPlace THEN <<Parent(place), place>> ELSE <<place>>

RECURSIVE Hierarchy(_)
Hierarchy(place) ==
    IF Parent(place) # NoPlace
      THEN Append(Hierarchy(Parent(place)), place)
      ELSE Append(<<>>, place)

----------------------------------------------------------------------------
(* str.join *)
RECURSIVE Join(_, _)
Join(sep, strs) ==
    IF Len(strs) = 0 THEN ""
    ELSE IF Len(strs) = 1 THEN strs[1]
    ELSE strs[1] \o sep \o Join(sep, Tail(strs))

Code(place) ==
    CASE place[1] = "Country" -> countries[place[2]].code
      [] place[1] = "Region" -> regions[place[2]].code
      [] place[1] = "Subregion" -> subregions[place[2]].code

RegionFullCodeSwapped(pk) ==
    Join(".", <<regions[pk].code, Code(Parent(<<"Region", pk>>))>>)

RegionFullCode(pk) ==
    Join(".", <<Code(Parent(<<"Region", pk>>)), regions[pk].code>>)

SubregionFullCode(pk) ==
    Join(".", <<Code(Parent(Parent(<<"Subregion", pk>>))),
                Code(Parent(<<"Subregion", pk>>)),
                subregions[pk].code>>)

----------------------------------------------------------------------------
(* PlaceManager.nearest_to *)
Distance(a, b) == IF a >= b THEN a - b ELSE b - a

TruthyNotNone(range) == range # NoRange

\* `if range_in_miles:`
Truthy(range) == range # NoRange /\ range # 0

\* self.filter(location__distance_lte=(point, D(mi=range_in_miles)))
FilterDistanceLte(model, point, range) ==
    {pk \in Pks(Table(model)) : Distance(Table(model)[pk].location, point) <= range}

FirstByDistanceDesc(model, candidates, point) ==
    {pk \in candidates : \A o \in candidates :
        Distance(Table(model)[pk].location, point) >= Distance(Table(model)[o].location, point)}

\* place_candidates.distance(point).order_by('distance')[0]: the rows that can come first
FirstByDistance(model, candidates, point) ==
    {pk \in candidates : \A o \in candidates :
        Distance(Table(model)[pk].location, point) <= Distance(Table(model)[o].location, point)}

Row(pk) == [kind |-> "row", pk |-> pk]
None == [kind |-> "none", pk |-> 0]
Raise(exc) == [kind |-> exc, pk |-> 0]

\* the set of outcomes of nearest_to(point, range_in_miles) on a model's PlaceManager
nearest_to(model, point, range) ==
    IF Truthy(range) /\ ~HasLocation(model)
      THEN {Raise("FieldError")}
    ELSE IF ~HasLocation(model)
      THEN {Raise("TypeError")}
    ELSE LET place_candidates ==
                 IF Truthy(range) THEN FilterDistanceLte(model, point, range)
                                  ELSE Pks(Table(model))
         IN  IF place_candidates = {}
               THEN {None}
               ELSE {Row(pk) : pk \in FirstByDistance(model, place_candidates, point)}

NearestTo ==
    /\ call = NoCall
    /\ \E model \in PlaceManagerModels, point \in Points, range \in Ranges :
      \E res \in nearest_to(model, point, range) :
        /\ call' = [op |-> "nearest_to", model |-> model, point |-> point,
                    range |-> range, result |-> res]
        /\ UNCHANGED tables

(* CountryManager.nearest_to *)
CityCountryViaRegion(pk) ==
    IF cities[pk].region = Null THEN cities[pk].country
    ELSE regions[cities[pk].region].country

\* nearest_city.country
CityCountry(pk) == cities[pk].country

country_nearest_to(nearest_city) ==
    IF nearest_city.kind = "row" THEN Row(CityCountry(nearest_city.pk))
    ELSE nearest_city

CountryNearestTo ==
    /\ call = NoCall
    /\ \E point \in Points, range \in Ranges :
      \E nearest_city \in nearest_to("City", point, range) :
        /\ call' = [op |-> "country_nearest_to", model |-> "Country", point |-> point,
                    range |-> range, nearest_city |-> nearest_city,
                    result |-> country_nearest_to(nearest_city)]
        /\ UNCHANGED tables

----------------------------------------------------------------------------
(* get_full_index *)
NoQueryset == {0}   \* queryset=None; a queryset is a set of primary keys

Querysets(model) == {NoQueryset} \cup SUBSET Pks(Table(model))

OrAllNotNone(model, queryset) ==
    IF queryset = NoQueryset THEN Pks(Table(model)) ELSE queryset

\* `queryset or self.all()`
OrAll(model, queryset) ==
    IF queryset = NoQueryset \/ queryset = {} THEN Pks(Table(model)) ELSE queryset

\* the orders in which the database may hand out the rows of an unordered query
Orders(rows) ==
    {o \in [1..Cardinality(rows) -> rows] : \A i, j \in DOMAIN o : o[i] = o[j] => i = j}

\* {r.full_code(): r for r in regions}
RECURSIVE RegionDict(_)
RegionDict(rows) ==
    IF Len(rows) = 0 THEN <<>>
    ELSE LET d == RegionDict(SubSeq(rows, 1, Len(rows) - 1))
             r == rows[Len(rows)]
         IN  [k \in DOMAIN d \cup {RegionFullCode(r)} |->
                 IF k = RegionFullCode(r) THEN r ELSE d[k]]

\* {r.full_code(): r for r in subregions}
RECURSIVE SubregionDict(_)
SubregionDict(rows) ==
    IF Len(rows) = 0 THEN <<>>
    ELSE LET d == SubregionDict(SubSeq(rows, 1, Len(rows) - 1))
             r == rows[Len(rows)]
         IN  [k \in DOMAIN d \cup {SubregionFullCode(r)} |->
                 IF k = SubregionFullCode(r) THEN r ELSE d[k]]

RegionGetFullIndex ==
    /\ call = NoCall
    /\ \E queryset \in Querysets("Region") :
      \E rows \in Orders(OrAll("Region", queryset)) :
        /\ call' = [op |-> "get_full_index", model |-> "Region", queryset |-> queryset,
                    rows |-> rows, result |-> RegionDict(rows)]
        /\ UNCHANGED tables

SubregionGetFullIndex ==
    /\ call = NoCall
    /\ \E queryset \in Querysets("Subregion") :
      \E rows \in Orders(OrAll("Subregion", queryset)) :
        /\ call' = [op |-> "get_full_index", model |-> "Subregion", queryset |-> queryset,
                    rows |-> rows, result |-> SubregionDict(rows)]
        /\ UNCHANGED tables

----------------------------------------------------------------------------
(* Reading the hierarchy property and full_code() of a row *)
GetHierarchy ==
    /\ call = NoCall
    /\ \E place \in Places :
        /\ call' = [op |-> "hierarchy", place |-> place, result |-> Hierarchy(place)]
        /\ UNCHANGED tables

RegionFullCodeCall ==
    /\ call = NoCall
    /\ \E pk \in Pks(regions) :
        /\ call' = [op |-> "full_code", place |-> <<"Region", pk>>,
                    result |-> RegionFullCode(pk)]
        /\ UNCHANGED tables

SubregionFullCodeCall ==
    /\ call = NoCall
    /\ \E pk \in Pks(subregions) :
        /\ call' = [op |-> "full_code", place |-> <<"Subregion", pk>>,
                    result |-> SubregionFullCode(pk)]
        /\ UNCHANGED tables

\* the caller takes the result; every operation is one synchronous request
Return ==
    /\ call # NoCall
    /\ call' = NoCall
    /\ UNCHANGED tables

Next ==
    \/ NearestTo
    \/ CountryNearestTo
    \/ RegionGetFullIndex
    \/ SubregionGetFullIndex
    \/ GetHierarchy
    \/ RegionFullCodeCall
    \/ SubregionFullCodeCall
    \/ Return

----------------------------------------------------------------------------
(* Table contents *)
SeqsUpTo(S, n) == UNION {[1..k -> S] : k \in 0..n}

CountryRow(code) == [code |-> code]
RegionRows(cs, codes) == [code : codes, country : Pks(cs)]
SubregionRows(rs, codes) == [code : codes, region : Pks(rs)]
CityRows(cs, rs, ss, locs) ==
    [location : locs, region : {Null} \cup Pks(rs), subregion : {Null} \cup Pks(ss),
     country : Pks(cs)]
DistrictRows(ci, locs) == [location : locs, city : Pks(ci)]

TwoCountries == <<CountryRow("US"), CountryRow("CA")>>

\* databases for the spatial queries: the cities vary, or the districts of one city do
InitNearest ==
    /\ countries = TwoCountries
    /\ regions = <<[code |-> "01", country |-> 1]>>
    /\ subregions = <<[code |-> "01", region |-> 1]>>
    /\ \/ /\ cities \in SeqsUpTo(CityRows(countries, regions, <<>>, Points), MaxCities)
          /\ districts = <<>>
       \/ /\ cities = <<[location |-> 0, region |-> 1, subregion |-> Null, country |-> 1]>>
          /\ districts \in SeqsUpTo(DistrictRows(cities, Points), MaxDistricts)
    /\ postalcodes = <<>>
    /\ call = NoCall

\* databases for the code indexes: countries, regions and subregions vary
InitIndex ==
    /\ countries = TwoCountries
    /\ regions \in SeqsUpTo(RegionRows(countries, PlaceCodes), MaxRegions)
    /\ subregions \in SeqsUpTo(SubregionRows(regions, PlaceCodes), MaxSubregions)
    /\ cities = <<>>
    /\ districts = <<>>
    /\ postalcodes = <<>>
    /\ call = NoCall

\* databases for the hierarchy walk: the links of regions, subregions and cities
\* vary; every city has a district and every country a postal code
InitHier ==
    /\ countries = TwoCountries
    /\ regions \in SeqsUpTo(RegionRows(countries, {"01"}), MaxRegions)
    /\ subregions \in SeqsUpTo(SubregionRows(regions, {"01"}), HierMaxSubregions)
    /\ cities \in SeqsUpTo(CityRows(<<countries[1]>>, regions, subregions, {0}), HierMaxCities)
    /\ districts = [i \in Pks(cities) |-> [location |-> 0, city |-> Len(cities) + 1 - i]]
    /\ postalcodes = [i \in Pks(countries) |->
                         [code |-> "90210", location |-> 0, country |-> Len(countries) + 1 - i]]
    /\ call = NoCall

Spec == InitNearest /\ [][Next]_vars
SpecIndex == InitIndex /\ [][Next]_vars
SpecHier == InitHier /\ [][Next]_vars

----------------------------------------------------------------------------
(* Properties *)
Loc(model, pk) == Table(model)[pk].location

Within(model, point, range) ==
    {pk \in Pks(Table(model)) : Distance(Loc(model, pk), point) <= range}

IsNearest(model, point, pk) ==
    \A o \in Pks(Table(model)) :
        Distance(Loc(model, pk), point) <= Distance(Loc(model, o), point)

\* C1: on an entity with a location, nearest_to(point, R) with a radius R given
\* returns none or a row at distance at most R from the point, and returns none
\* exactly when no row of the entity lies within R of the point.
C1_RadiusBoundsResult ==
    (call.op = "nearest_to" /\ HasLocation(call.model) /\ call.range # NoRange) =>
        /\ call.result.kind \in {"none", "row"}
        /\ call.result.kind = "row" =>
               call.result.pk \in Within(call.model, call.point, call.range)
        /\ call.result.kind = "none" <=>
               Within(call.model, call.point, call.range) = {}

\* C2: on an entity with a location, nearest_to(point) without a radius returns
\* a row whose distance to the point is minimal among all rows of the entity,
\* and returns none if and only if the entity has no rows.
C2_NearestWithoutRadius ==
    (call.op = "nearest_to" /\ HasLocation(call.model) /\ call.range = NoRange) =>
        /\ call.result.kind \in {"none", "row"}
        /\ call.result.kind = "none" <=> Pks(Table(call.model)) = {}
        /\ call.result.kind = "row" =>
               /\ call.result.pk \in Pks(Table(call.model))
               /\ IsNearest(call.model, call.point, call.result.pk)

C2_Witness ==
    /\ call.op = "nearest_to" /\ call.model = "City" /\ call.range = NoRange
    /\ call.result.kind = "row"
    /\ \E o \in Pks(cities) :
           Distance(cities[o].location, call.point) >
               Distance(cities[call.result.pk].location, call.point)

\* C3: Country.objects.nearest_to(point, radius) returns the country of the city
\* that City.objects.nearest_to(point, radius) returns, and none exactly when
\* that City query returns none.
C3_CountryOfNearestCity ==
    call.op = "country_nearest_to" =>
        /\ call.nearest_city \in nearest_to("City", call.point, call.range)
        /\ call.nearest_city.kind = "row" =>
               call.result = Row(cities[call.nearest_city.pk].country)
        /\ call.result.kind = "none" <=> call.nearest_city.kind = "none"
        /\ call.result.kind \in {"none", "row"}

C3_Witness ==
    /\ call.op = "country_nearest_to" /\ call.result.kind = "row"
    /\ call.range # NoRange
    /\ cities[call.nearest_city.pk].region # Null
    /\ regions[cities[call.nearest_city.pk].region].country # call.result.pk

DirectFullCode(model, pk) ==
    IF model = "Region"
      THEN countries[regions[pk].country].code \o "." \o regions[pk].code
      ELSE countries[regions[subregions[pk].region].country].code \o "."
               \o regions[subregions[pk].region].code \o "." \o subregions[pk].code

InputRows(model, queryset) ==
    IF queryset = NoQueryset THEN Pks(Table(model)) ELSE queryset

\* C4: get_full_index of Region and Subregion returns a mapping with as many
\* entries as there are input rows (all rows without a base query, else the
\* rows of the base query), whose keys are exactly the full_code() values of
\* those rows, each key mapping to a row having that full_code().
C4_IndexOfInputRows ==
    call.op = "get_full_index" =>
        LET input == InputRows(call.model, call.queryset)
        IN  /\ Cardinality(DOMAIN call.result) = Cardinality(input)
            /\ DOMAIN call.result = {DirectFullCode(call.model, pk) : pk \in input}
            /\ \A k \in DOMAIN call.result :
                   /\ call.result[k] \in Pks(Table(call.model))
                   /\ DirectFullCode(call.model, call.result[k]) = k

\* C5: nearest_to with a radius given on an entity without a location field
\* (Region, Subregion) ends in FieldError for every point and every radius.
C5_RadiusWithoutLocationRaisesFieldError ==
    (call.op = "nearest_to" /\ ~HasLocation(call.model) /\ call.range # NoRange) =>
        call.result.kind = "FieldError"

\* C6: the hierarchy of a City ends with the city and starts with the Country
\* at the top of its parent chain, or with the city itself when the city has
\* no parent chain leading to a Country.
C6_CityHierarchyEnds ==
    (call.op = "hierarchy" /\ call.place[1] = "City") =>
        LET h == call.result
            city == cities[call.place[2]]
        IN  /\ Len(h) >= 1
            /\ h[Len(h)] = call.place
            /\ h[1] = IF city.region # Null
                        THEN <<"Country", regions[city.region].country>>
                        ELSE call.place

C6_Witness ==
    /\ call.op = "hierarchy" /\ call.place[1] = "City"
    /\ cities[call.place[2]].region # Null
    /\ cities[call.place[2]].subregion = Null
    /\ call.result[1][1] = "Country"

\* C7: Region.full_code() is country.code + "." + region.code and
\* Subregion.full_code() is country.code + "." + region.code + "." +
\* subregion.code, with region the subregion's region and country that
\* region's country.
C7_FullCodeIsDottedCodes ==
    call.op = "full_code" =>
        call.result = DirectFullCode(call.place[1], call.place[2])

C7_Witness ==
    /\ call.op = "full_code" /\ call.place[1] = "Region"
    /\ call.result = "CA.02"
    /\ \E pk \in Pks(subregions) :
           subregions[pk].code # regions[subregions[pk].region].code

NoRepeats(h) == \A i, j \in 1..Len(h) : h[i] = h[j] => i = j

\* C8: the hierarchy of a place of any entity type is a finite sequence without
\* repeated elements that ends with the place, in which every element after
\* the first has the preceding element as its parent and the first element has
\* no parent.
C8_HierarchyIsRootToSelfPath ==
    call.op = "hierarchy" =>
        LET h == call.result
        IN  /\ Len(h) >= 1
            /\ NoRepeats(h)
            /\ h[Len(h)] = call.place
            /\ \A i \in 2..Len(h) : Parent(h[i]) = h[i - 1]
            /\ Parent(h[1]) = NoPlace

C8_Witness ==
    /\ call.op = "hierarchy" /\ call.place[1] = "District"
    /\ Len(call.result) = 4
    /\ Len(subregions) > 0 /\ Len(postalcodes) > 0

====
